---- MODULE Spec2Model ----
(***************************************************************************)
(* Model of src/main.py: the YDConnector client, CatImageAPI and main(),   *)
(* the linear orchestration that checks the token, creates the folder,     *)
(* builds the image URL, starts the upload, polls the operation and writes *)
(* the backup_info manifest.                                               *)
(*                                                                         *)
(* Strings are sequences of tokens (a token stands for one character or    *)
(* one run of characters), so that concatenation, percent-encoding and     *)
(* splitting on the "operation_id=" marker are computed, not assumed.      *)
(* Progress fractions are carried in thousandths (300 is 0.3).             *)
(* The remote services are the environment: every HTTP call draws its      *)
(* response (a status code and body, or a raised exception) from a set.    *)
(***************************************************************************)
EXTENDS Integers, Sequences, FiniteSets, TLC

VARIABLES
    pc,            \* position of main(): the next call it will make
    exit,          \* "running", "returned" (main returned) or "uncaught"
    text, group,   \* args.text, args.group
    printed,       \* the set of diagnostics printed so far
    calls,         \* how many times each operation has been called
    raised,        \* the operations whose HTTP call raised an exception
    cat_url,       \* main's cat_url
    file_name,     \* main's file_name
    file_path,     \* main's file_path
    upload_resp,   \* the response upload_from_url received
    operation_id,  \* main's operation_id
    attempts,      \* iterations of the poll loop started so far
    n,             \* pbar.n, the displayed cumulative progress
    before,        \* pbar.n as it was when the latest attempt began
    status_info,   \* the result of the latest check_upload_status call
    polled,        \* the operation ids status requests were made with
    slept,         \* total seconds spent in time.sleep
    loopEnd,       \* how the poll loop ended
    inRange,       \* every progress fraction reported so far lay in [0, 1]
    scenario,      \* how far the polls so far match [0.3, 0.6, success]
    queried,       \* the paths get_file_info was called with
    file_info,     \* main's file_info
    manifests      \* the backup_info records dumped to JSON files

vars == <<pc, exit, text, group, printed, calls, raised, cat_url, file_name,
          file_path, upload_resp, operation_id, attempts, n, before,
          status_info, polled, slept, loopEnd, inRange, scenario, queried,
          file_info, manifests>>

----------------------------------------------------------------------------
(* Bounds and program constants *)

MaxHref == 2

MaxAttempts == 20

SleepSeconds == 2

----------------------------------------------------------------------------
(* Values *)

None == [isNone |-> TRUE]

Some(v) == [isNone |-> FALSE, val |-> v]

Max(a, b) == IF a >= b THEN a ELSE b

\* Python truthiness of an optional string: None and "" are both falsy.
TruthyStr(o) == ~o.isNone /\ o.val # <<>>

\* dict.get(key, default) on an optional entry of a parsed JSON object.
Get(entry, default) == IF entry.isNone THEN default ELSE entry.val

Ops == {"check_token", "create_folder", "get_cat_with_text",
        "upload_from_url", "check_upload_status", "get_file_info"}

Surrogate == "\\udc80"

Texts == {<<"h", "i">>, <<"a", " ", "b">>, <<Surrogate>>}

Groups == {<<"cats">>, <<"m", "y">>}

Marker == "operation_id="

HrefTokens == {Marker, "ABC123"}

SeqsUpTo(S, k) == UNION {[1..m -> S] : m \in 0..k}

Hrefs == SeqsUpTo(HrefTokens, MaxHref)

Statuses == {"success", "failed", "in-progress"}

\* Progress fractions in thousandths; 1200 (1.2) lies outside [0, 1].
Fractions == {290, 300, 305, 600, 1200}

Sizes == {1234}

----------------------------------------------------------------------------
(* HTTP responses: the call raises, or answers with a status code and a    *)
(* body; json.valid = FALSE is a body response.json() cannot parse.        *)

Raises == [raises |-> TRUE]

Http(code, body) == [raises |-> FALSE, status_code |-> code, json |-> body]

NoBody == [valid |-> FALSE]

TokenResponses == {Raises} \cup {Http(c, NoBody) : c \in {200, 401}}

FolderResponses == {Raises} \cup {Http(c, NoBody) : c \in {201, 409, 507}}

UploadBodies ==
    {NoBody} \cup {[valid |-> TRUE, href |-> h] : h \in {None} \cup {Some(x) : x \in Hrefs}}

UploadResponses == {Raises} \cup {Http(c, b) : c \in {202, 400}, b \in UploadBodies}

\* {} is the body with neither key; a terminal status carries no progress here.
StatusBodies ==
    {NoBody}
    \cup {[valid |-> TRUE, status |-> None, progress |-> None]}
    \cup {[valid |-> TRUE, status |-> Some(s), progress |-> None] : s \in Statuses}
    \cup {[valid |-> TRUE, status |-> Some("in-progress"), progress |-> Some(f)] : f \in Fractions}
    \cup {[valid |-> TRUE, status |-> None, progress |-> Some(600)]}

StatusResponses ==
    {Raises, Http(404, NoBody)} \cup {Http(200, b) : b \in StatusBodies}

FileInfoBodies(path) ==
    {NoBody}
    \cup {[valid |-> TRUE, size |-> sz, path |-> p] :
            sz \in {None} \cup {Some(x) : x \in Sizes},
            p \in {None, Some(path), Some(<<"disk:/">> \o path)}}

FileInfoResponses(path) ==
    {Raises, Http(404, NoBody)} \cup {Http(200, b) : b \in FileInfoBodies(path)}

----------------------------------------------------------------------------
(* YDConnector *)

\* check_token: True only on HTTP 200, False on any exception.
check_token(resp) ==
    IF resp.raises THEN FALSE ELSE resp.status_code = 200

\* create_folder has no try/except: it is applied only to a response that
\* arrived; an exception of requests.put leaves the method by propagation.
create_folder(resp) == resp.status_code \in {201, 409}

\* href.split("operation_id=")[-1]: what follows the last marker, or the
\* whole string when the marker does not occur.
LastMarker(href) ==
    LET at == {i \in 1..Len(href) : href[i] = Marker}
    IN  IF at = {} THEN 0 ELSE CHOOSE i \in at : \A j \in at : j <= i

SplitLast(href) == SubSeq(href, LastMarker(href) + 1, Len(href))

upload_from_url(resp) ==
    IF resp.raises THEN None
    ELSE IF resp.status_code # 202 THEN None
    ELSE IF ~resp.json.valid THEN None
    ELSE Some(SplitLast(Get(resp.json.href, <<>>)))

\* A parsed JSON object is falsy exactly when it is {}.
EmptyStatus(body) == body.status.isNone /\ body.progress.isNone

check_upload_status(resp) ==
    IF resp.raises THEN None
    ELSE IF resp.status_code # 200 THEN None
    ELSE IF ~resp.json.valid THEN None
    ELSE Some(resp.json)

EmptyInfo(body) == body.size.isNone /\ body.path.isNone

get_file_info(resp) ==
    IF resp.raises THEN None
    ELSE IF resp.status_code # 200 THEN None
    ELSE IF ~resp.json.valid THEN None
    ELSE Some(resp.json)

----------------------------------------------------------------------------
(* CatImageAPI *)

\* urllib.parse.quote: unreserved characters stay, the others become their
\* percent-escape; a lone surrogate cannot be encoded and raises.
QuoteChar(c) == IF c = " " THEN <<"%20">> ELSE <<c>>

RECURSIVE quote(_)
quote(s) == IF s = <<>> THEN <<>> ELSE QuoteChar(Head(s)) \o quote(Tail(s))

Encodable(s) == \A i \in 1..Len(s) : s[i] # Surrogate

get_cat_with_text(t) ==
    IF Encodable(t)
    THEN Some(<<"https://cataas.com/cat/says/">> \o quote(t))
    ELSE None

----------------------------------------------------------------------------
(* main(): the helpers of its steps *)

\* FileName without the extension.
FileNameNoExtension(t) == t

FileName(t) == t \o <<".jpg">>

FilePath(g, fname) == g \o <<"/">> \o fname

\* "if not status_info": None and {} both skip the attempt.
FalsyStatus(info) == info.isNone \/ EmptyStatus(info.val)

\* status_info.get("status")
StatusOf(info) == info.val.status

\* BreaksLoop with the break of the "failed" branch left out.
BreaksOnSuccessOnly(status) == status = Some("success")

\* The two statuses that leave the loop by break.
BreaksLoop(status) == status \in {Some("success"), Some("failed")}

\* int(fraction * 100) in binary floating point, fraction given in
\* thousandths: the product of these fractions falls just below the whole
\* number (0.29 * 100 = 28.999999999999996), so int() yields one less.
FloatBelow == {290, 570, 580, 1130, 1140, 1150, 1160}

ProgressPercent(f) == IF f \in FloatBelow THEN (f \div 10) - 1 ELSE f \div 10

\* tqdm.update(d): self.n += d
PbarUpdate(shown, d) == shown + d

\* ShowSuccess as pbar.update(100), the shown value not subtracted.
ShowSuccessAdds(shown) == PbarUpdate(shown, 100)

\* pbar.update(100 - pbar.n)
ShowSuccess(shown) == PbarUpdate(shown, 100 - shown)

\* progress = int(status_info.get("progress", 0) * 100)
\* pbar.update(max(0, progress - pbar.n))
ShowProgress(shown, info) ==
    PbarUpdate(shown, Max(0, ProgressPercent(Get(info.val.progress, 0)) - shown))

\* LoopNext with one iteration too many.
LoopNextOffByOne(att, broke) ==
    IF broke \/ att > MaxAttempts THEN "file_info" ELSE "poll"

\* LoopNext with the breaks left out: only the range ends the loop.
LoopNextNoBreak(att, broke) ==
    IF att >= MaxAttempts THEN "file_info" ELSE "poll"

\* "for _ in range(20)": the loop goes on unless it broke or used the range up.
LoopNext(att, broke) ==
    IF broke \/ att >= MaxAttempts THEN "file_info" ELSE "poll"

\* TruthyInfo as "file_info is not None": {} passes.
InfoIsNotNone(info) == ~info.isNone

\* "if file_info": None and {} both mean the upload is not there.
TruthyInfo(info) == ~info.isNone /\ ~EmptyInfo(info.val)

\* The backup_info dictionary (its timestamp left out).
BackupInfo(info) ==
    [group_name |-> group,
     text |-> text,
     file_name |-> file_name,
     file_size |-> Get(info.val.size, 0),
     file_path |-> Get(info.val.path, <<>>),
     yandex_disk_url |-> <<"https://disk.yandex.ru/client/disk/">> \o group,
     source_url |-> cat_url.val]

\* AfterToken with the return after the failed check left out.
AfterTokenIgnored(ok) == "create_folder"

\* Where main goes after each guarded step.
AfterToken(ok) == IF ok THEN "create_folder" ELSE "done"

AfterFolder(ok) == IF ok THEN "get_cat_with_text" ELSE "done"

AfterCat(url) == IF TruthyStr(url) THEN "upload_from_url" ELSE "done"

AfterUpload(id) == IF TruthyStr(id) THEN "poll" ELSE "done"

Called(op) == [calls EXCEPT ![op] = @ + 1]

Noted(op, resp) == IF resp.raises THEN raised \cup {op} ELSE raised

\* A payload that is neither terminal and reports the fraction f.
Running(info, f) ==
    /\ ~FalsyStatus(info)
    /\ ~BreaksLoop(StatusOf(info))
    /\ info.val.progress = Some(f)

\* Follows the polls against the sequence [running(0.3), running(0.6), success].
ScenarioNext(sc, info) ==
    IF sc = "start" /\ Running(info, 300) THEN "one"
    ELSE IF sc = "one" /\ Running(info, 600) THEN "two"
    ELSE IF sc = "two" /\ ~FalsyStatus(info) /\ StatusOf(info) = Some("success")
         THEN "matched"
    ELSE "off"

FractionInRange(info) ==
    FalsyStatus(info) \/ Get(info.val.progress, 0) \in 0..1000

----------------------------------------------------------------------------
(* main(): the state machine *)

Init ==
    /\ pc = "check_token"
    /\ exit = "running"
    /\ text \in Texts
    /\ group \in Groups
    /\ printed = {}
    /\ calls = [op \in Ops |-> 0]
    /\ raised = {}
    /\ cat_url = None
    /\ file_name = <<>>
    /\ file_path = <<>>
    /\ upload_resp = None
    /\ operation_id = None
    /\ attempts = 0
    /\ n = 0
    /\ before = 0
    /\ status_info = None
    /\ polled = {}
    /\ slept = 0
    /\ loopEnd = "none"
    /\ inRange = TRUE
    /\ scenario = "start"
    /\ queried = {}
    /\ file_info = None
    /\ manifests = <<>>

Exit(to) == IF to = "done" THEN "returned" ELSE exit

\* "if not yandex.check_token(): ... return"
CheckToken ==
    /\ pc = "check_token"
    /\ \E resp \in TokenResponses :
        LET ok == check_token(resp) IN
        /\ calls' = Called("check_token")
        /\ raised' = Noted("check_token", resp)
        /\ printed' = printed \cup {IF ok THEN "OK_TOKEN" ELSE "ERR_TOKEN"}
        /\ pc' = AfterToken(ok)
        /\ exit' = Exit(pc')
    /\ UNCHANGED <<text, group, cat_url, file_name, file_path, upload_resp,
                   operation_id, attempts, n, before, status_info, polled,
                   slept, loopEnd, inRange, scenario, queried, file_info,
                   manifests>>

\* "if not yandex.create_folder(args.group): ... return"; an exception of
\* requests.put is caught nowhere and ends main.
CreateFolder ==
    /\ pc = "create_folder"
    /\ \E resp \in FolderResponses :
        /\ calls' = Called("create_folder")
        /\ raised' = Noted("create_folder", resp)
        /\ IF resp.raises
           THEN /\ pc' = "done"
                /\ exit' = "uncaught"
                /\ printed' = printed
           ELSE LET ok == create_folder(resp) IN
                /\ printed' = printed \cup {IF ok THEN "OK_FOLDER" ELSE "ERR_FOLDER"}
                /\ pc' = AfterFolder(ok)
                /\ exit' = Exit(pc')
    /\ UNCHANGED <<text, group, cat_url, file_name, file_path, upload_resp,
                   operation_id, attempts, n, before, status_info, polled,
                   slept, loopEnd, inRange, scenario, queried, file_info,
                   manifests>>

\* cat_url, then file_name and file_path; no request is sent.
GetCat ==
    /\ pc = "get_cat_with_text"
    /\ LET url == get_cat_with_text(text) IN
        /\ calls' = Called("get_cat_with_text")
        /\ cat_url' = url
        /\ pc' = AfterCat(url)
        /\ exit' = Exit(pc')
        /\ IF pc' = "done"
           THEN /\ printed' = printed \cup {"ERR_CAT"}
                /\ UNCHANGED <<file_name, file_path>>
           ELSE /\ printed' = printed \cup {"OK_CAT"}
                /\ file_name' = FileName(text)
                /\ file_path' = FilePath(group, file_name')
    /\ UNCHANGED <<text, group, raised, upload_resp, operation_id, attempts, n,
                   before, status_info, polled, slept, loopEnd, inRange,
                   scenario, queried, file_info, manifests>>

\* "operation_id = yandex.upload_from_url(...)"; "if not operation_id: return"
StartUpload ==
    /\ pc = "upload_from_url"
    /\ \E resp \in UploadResponses :
        LET id == upload_from_url(resp) IN
        /\ calls' = Called("upload_from_url")
        /\ raised' = Noted("upload_from_url", resp)
        /\ upload_resp' = Some(resp)
        /\ operation_id' = id
        /\ pc' = AfterUpload(id)
        /\ exit' = Exit(pc')
        /\ printed' = IF pc' = "done" THEN printed \cup {"ERR_START"} ELSE printed
    /\ UNCHANGED <<text, group, cat_url, file_name, file_path, attempts, n,
                   before, status_info, polled, slept, loopEnd, inRange,
                   scenario, queried, file_info, manifests>>

\* One iteration of the poll loop; after the last one the loop is left.
PollAttempt ==
    /\ pc = "poll"
    /\ \E resp \in StatusResponses :
        LET info == check_upload_status(resp)
            broke == ~FalsyStatus(info) /\ BreaksLoop(StatusOf(info))
        IN
        /\ calls' = Called("check_upload_status")
        /\ raised' = Noted("check_upload_status", resp)
        /\ polled' = polled \cup {operation_id.val}
        /\ attempts' = attempts + 1
        /\ before' = n
        /\ status_info' = info
        /\ scenario' = ScenarioNext(scenario, info)
        /\ inRange' = (inRange /\ FractionInRange(info))
        /\ pc' = LoopNext(attempts', broke)
        /\ IF FalsyStatus(info)
           THEN /\ slept' = slept + SleepSeconds
                /\ UNCHANGED <<n, printed>>
           ELSE IF StatusOf(info) = Some("success")
           THEN /\ n' = ShowSuccess(n)
                /\ UNCHANGED <<slept, printed>>
           ELSE IF StatusOf(info) = Some("failed")
           THEN /\ printed' = printed \cup {"ERR_UPLOAD"}
                /\ UNCHANGED <<n, slept>>
           ELSE /\ n' = ShowProgress(n, info)
                /\ slept' = slept + SleepSeconds
                /\ printed' = printed
        /\ loopEnd' = IF broke THEN StatusOf(info).val
                      ELSE IF pc' = "file_info" THEN "exhausted"
                      ELSE loopEnd
    /\ UNCHANGED <<exit, text, group, cat_url, file_name, file_path,
                   upload_resp, operation_id, queried, file_info, manifests>>

\* "file_info = yandex.get_file_info(file_path)", then the manifest or the
\* final diagnostic; main returns either way.
FetchFileInfo ==
    /\ pc = "file_info"
    /\ \E resp \in FileInfoResponses(file_path) :
        LET info == get_file_info(resp) IN
        /\ calls' = Called("get_file_info")
        /\ raised' = Noted("get_file_info", resp)
        /\ queried' = queried \cup {file_path}
        /\ file_info' = info
        /\ IF TruthyInfo(info)
           THEN /\ manifests' = Append(manifests, BackupInfo(info))
                /\ printed' = printed \cup {"OK_DONE"}
           ELSE /\ manifests' = manifests
                /\ printed' = printed \cup {"ERR_FINAL"}
        /\ pc' = "done"
        /\ exit' = "returned"
    /\ UNCHANGED <<text, group, cat_url, file_name, file_path, upload_resp,
                   operation_id, attempts, n, before, status_info, polled,
                   slept, loopEnd, inRange, scenario>>

Next ==
    \/ CheckToken
    \/ CreateFolder
    \/ GetCat
    \/ StartUpload
    \/ PollAttempt
    \/ FetchFileInfo

Spec == Init /\ [][Next]_vars

----------------------------------------------------------------------------
(* Properties *)

Dest == group \o <<"/">> \o text \o <<".jpg">>

Polls == calls["check_upload_status"]

LaterCalls(ops) == \A op \in ops : calls[op] = 0

Terminal(info) ==
    /\ ~info.isNone
    /\ info.val.status \in {Some("success"), Some("failed")}

SuccessNow == ~status_info.isNone /\ status_info.val.status = Some("success")

FailedNow == ~status_info.isNone /\ status_info.val.status = Some("failed")

NonEmptyInfo ==
    /\ ~file_info.isNone
    /\ ~(file_info.val.size.isNone /\ file_info.val.path.isNone)

StepsOneToFourOk ==
    /\ {"OK_TOKEN", "OK_FOLDER", "OK_CAT"} \subseteq printed
    /\ ~operation_id.isNone
    /\ operation_id.val # <<>>

\* C1: the steps run in the order check_token, create_folder,
\* get_cat_with_text, upload_from_url, check_upload_status, get_file_info,
\* each only after the one before it succeeded; after a failed step no later
\* call is made, no manifest is written and main returns normally.
C1_StepsInOrder ==
    /\ \A op \in Ops \ {"check_upload_status"} : calls[op] <= 1
    /\ calls["create_folder"] > 0 =>
          calls["check_token"] = 1 /\ "OK_TOKEN" \in printed
    /\ calls["get_cat_with_text"] > 0 =>
          calls["create_folder"] = 1 /\ "OK_FOLDER" \in printed
    /\ calls["upload_from_url"] > 0 =>
          calls["get_cat_with_text"] = 1 /\ "OK_CAT" \in printed
    /\ Polls > 0 => calls["upload_from_url"] = 1 /\ StepsOneToFourOk
    /\ calls["get_file_info"] > 0 => Polls > 0
    /\ "ERR_TOKEN" \in printed =>
          /\ LaterCalls(Ops \ {"check_token"})
          /\ manifests = <<>> /\ pc = "done" /\ exit = "returned"
    /\ "ERR_FOLDER" \in printed =>
          /\ LaterCalls(Ops \ {"check_token", "create_folder"})
          /\ manifests = <<>> /\ pc = "done" /\ exit = "returned"
    /\ "ERR_CAT" \in printed =>
          /\ LaterCalls({"upload_from_url", "check_upload_status", "get_file_info"})
          /\ manifests = <<>> /\ pc = "done" /\ exit = "returned"
    /\ "ERR_START" \in printed =>
          /\ LaterCalls({"check_upload_status", "get_file_info"})
          /\ manifests = <<>> /\ pc = "done" /\ exit = "returned"

C1_Witness ==
    /\ pc = "done"
    /\ "ERR_TOKEN" \in printed
    /\ calls["check_token"] = 1
    /\ calls["create_folder"] = 0

\* C2: a network exception raised by the HTTP call of any of the five
\* operations never leaves the operation: main never ends by an uncaught
\* exception, and a raise in create_folder ends the run with the
\* folder-creation diagnostic.
C2_ExceptionsSwallowed ==
    /\ raised # {} => exit # "uncaught"
    /\ "create_folder" \in raised =>
          pc = "done" /\ exit = "returned" /\ "ERR_FOLDER" \in printed

\* C3 as stated: when every step succeeds, a poll reports "success" and the
\* file info reports size S, exactly one manifest is written and it holds
\* file_name = text + ".jpg", file_path = group + "/" + text + ".jpg" and
\* file_size = S.
C3_ManifestPathFromArguments ==
    (pc = "done" /\ loopEnd = "success" /\ NonEmptyInfo /\ ~file_info.val.size.isNone) =>
        /\ Len(manifests) = 1
        /\ manifests[1].file_name = text \o <<".jpg">>
        /\ manifests[1].file_path = Dest
        /\ manifests[1].file_size = file_info.val.size.val

\* C3 amended: in such a run exactly one manifest is written, with
\* file_name = text + ".jpg" and file_size = S; its file_path is the path
\* the file info reports ("" when it reports none), which is
\* group + "/" + text + ".jpg" when the service reports the requested path.
C3_ManifestFromFileInfo ==
    (pc = "done" /\ loopEnd = "success" /\ NonEmptyInfo /\ ~file_info.val.size.isNone) =>
        /\ Len(manifests) = 1
        /\ manifests[1].file_name = text \o <<".jpg">>
        /\ manifests[1].file_size = file_info.val.size.val
        /\ manifests[1].text = text /\ manifests[1].group_name = group
        /\ file_info.val.path.isNone => manifests[1].file_path = <<>>
        /\ ~file_info.val.path.isNone =>
              manifests[1].file_path = file_info.val.path.val
        /\ file_info.val.path = Some(Dest) => manifests[1].file_path = Dest

C3_Witness ==
    /\ pc = "done"
    /\ loopEnd = "success"
    /\ text = <<"h", "i">> /\ group = <<"cats">>
    /\ Len(manifests) = 1
    /\ manifests[1].file_size = 1234
    /\ manifests[1].file_name = <<"h", "i", ".jpg">>
    /\ manifests[1].file_path = <<"cats", "/", "h", "i", ".jpg">>

\* C4: when all 20 attempts return none or a non-terminal payload, the loop
\* ends after exactly 20 status requests, nothing is raised and no
\* diagnostic is printed for it, and get_file_info is called exactly once,
\* with the destination path.
C4_SilentTimeout ==
    (attempts = MaxAttempts /\ ~Terminal(status_info)) =>
        /\ Polls = 20
        /\ pc \in {"file_info", "done"}
        /\ exit # "uncaught"
        /\ printed \subseteq {"OK_TOKEN", "OK_FOLDER", "OK_CAT", "OK_DONE", "ERR_FINAL"}
        /\ pc = "file_info" => calls["get_file_info"] = 0 /\ exit = "running"
        /\ pc = "done" =>
              /\ calls["get_file_info"] = 1
              /\ queried = {Dest}
              /\ exit = "returned"

C4_Witness ==
    /\ pc = "done"
    /\ loopEnd = "exhausted"
    /\ Polls = 20
    /\ calls["get_file_info"] = 1

\* C5: after an attempt k in 1..20 whose payload has status "success" the
\* display is exactly 100 whatever it showed before, the loop is over with
\* no further status request and no delay after that attempt; after the
\* payloads [running(0.3), running(0.6), success] the display is 100 at the
\* third poll and 17 attempts are left unused.
C5_SuccessShowsHundred ==
    /\ SuccessNow =>
          /\ n = 100
          /\ attempts \in 1..20
          /\ Polls = attempts
          /\ pc \in {"file_info", "done"}
          /\ slept = SleepSeconds * (attempts - 1)
    /\ scenario = "matched" =>
          /\ SuccessNow /\ n = 100 /\ before = 60
          /\ attempts = 3 /\ Polls = 3
          /\ MaxAttempts - attempts = 17
          /\ pc \in {"file_info", "done"}

C5_Witness == scenario = "matched" /\ n = 100 /\ pc = "file_info"

\* C6: a payload with status "failed" ends the loop at that attempt and
\* does not abort the run: get_file_info is called for the destination path
\* and a manifest is written when it returns metadata.
C6_FailedStillFetches ==
    FailedNow =>
        /\ pc \in {"file_info", "done"}
        /\ Polls = attempts
        /\ exit # "uncaught"
        /\ "ERR_UPLOAD" \in printed
        /\ pc = "file_info" => exit = "running" /\ calls["get_file_info"] = 0
        /\ pc = "done" =>
              /\ calls["get_file_info"] = 1
              /\ queried = {Dest}
              /\ NonEmptyInfo => Len(manifests) = 1

C6_Witness ==
    /\ FailedNow
    /\ pc = "done"
    /\ attempts < MaxAttempts
    /\ Len(manifests) = 1

HrefOf(resp) == Get(resp.json.href, <<>>)

AfterSomeMarker(href, id) ==
    \E i \in 1..Len(href) : href[i] = Marker /\ id = SubSeq(href, i + 1, Len(href))

\* C7: upload_from_url returns none for every response that is not a 202
\* and for every exception; for a 202 whose href contains "operation_id=" it
\* returns the suffix of href after the marker; and status requests are made
\* only with an id obtained this way.
C7_PollsOnlyWithMarkerSuffix ==
    ~upload_resp.isNone =>
        LET resp == upload_resp.val IN
        /\ (resp.raises \/ resp.status_code # 202) => operation_id = None
        /\ (~resp.raises /\ resp.status_code = 202 /\ resp.json.valid
              /\ \E i \in 1..Len(HrefOf(resp)) : HrefOf(resp)[i] = Marker) =>
              /\ ~operation_id.isNone
              /\ AfterSomeMarker(HrefOf(resp), operation_id.val)
        /\ Polls > 0 =>
              /\ ~resp.raises /\ resp.status_code = 202 /\ resp.json.valid
              /\ operation_id.val # <<>>
              /\ AfterSomeMarker(HrefOf(resp), operation_id.val)
              /\ polled = {operation_id.val}

\* C8: at most 20 status requests are made, all with the one id the single
\* upload_from_url call returned; every attempt, a none one included, uses
\* up one of the 20; none follows a "success" or "failed" payload; an attempt
\* that returns none leaves the display as it was and is followed by one
\* delay.
C8_BoundedPolling ==
    /\ Polls <= 20
    /\ Polls = attempts
    /\ calls["upload_from_url"] <= 1
    /\ Polls > 0 => polled = {operation_id.val}
    /\ Polls = 0 => polled = {}
    /\ Terminal(status_info) => pc # "poll"
    /\ slept = SleepSeconds * (IF Terminal(status_info) THEN attempts - 1 ELSE attempts)
    /\ (attempts > 0 /\ (status_info.isNone \/ status_info.val = [valid |-> TRUE, status |-> None, progress |-> None])) =>
          n = before

C8_Witness ==
    /\ attempts = 2
    /\ status_info.isNone
    /\ before = 30
    /\ n = 30
    /\ slept = 4
    /\ pc = "poll"

\* C9: at most one manifest is written, and it is written exactly when
\* steps 1-4 succeeded and the single get_file_info call returned non-empty
\* metadata, however the poll loop ended.
C9_ManifestIffFileInfo ==
    /\ Len(manifests) <= 1
    /\ pc # "done" => manifests = <<>>
    /\ pc = "done" =>
          (Len(manifests) = 1
             <=> StepsOneToFourOk /\ calls["get_file_info"] = 1 /\ NonEmptyInfo)
    /\ Len(manifests) = 1 => loopEnd \in {"success", "failed", "exhausted"}

C9_Witness == pc = "done" /\ loopEnd = "exhausted" /\ Len(manifests) = 1

\* C10: while the reported fractions lie in [0, 1] the display is an integer
\* in 0..100 that never decreases; a running payload reporting less than the
\* display leaves it unchanged and one reporting more raises it to exactly
\* the reported percentage (the whole percents of the fraction).
C10_DisplayIsReportedPercentage ==
    inRange =>
        /\ n \in 0..100
        /\ n >= before
        /\ \A f \in Fractions :
              (attempts > 0 /\ ~Terminal(status_info) /\ ~status_info.isNone
                 /\ status_info.val.progress = Some(f)) =>
                  n = Max(before, f \div 10)

====
